---------------------------- MODULE Spec2Model ----------------------------
(***************************************************************************)
(* Model of addons/web/static/src/legacy/js/core/minimal_dom.js            *)
(* (makeAsyncHandler, makeButtonHandler, addButtonLoadingEffect) and of    *)
(* addons/web/static/src/views/fields/url/url_field.js                     *)
(* (UrlField.formattedHref).                                               *)
(*                                                                         *)
(* The browser is modelled as its event loop: a macrotask (an event        *)
(* listener, a timer, the settlement of a promise by the outside world)    *)
(* runs only when the microtask queue is empty; promise reactions          *)
(* (.then / .finally callbacks) are microtasks run in FIFO order.          *)
(* A listener runs to completion as one step: fct is taken not to dispatch *)
(* events synchronously to the handler that is calling it.  All DEBOUNCE   *)
(* timers have the same delay, so they fire in the order they were set;    *)
(* how long a promise stays pending is arbitrary.                          *)
(***************************************************************************)
EXTENDS Integers, Sequences, FiniteSets, TLC

VARIABLES
    pdArg,        \* makeAsyncHandler's preventDefault argument
    spArg,        \* makeAsyncHandler's stopPropagation argument
    pending,      \* [Handlers -> BOOLEAN]: the `pending` flag of each closure
    promises,     \* the promises returned by fct: Seq of [owner, st]
    reactions,    \* reactions[i]: the .finally callbacks waiting on promise i
    microtasks,   \* the microtask queue: Seq of [kind, arg]
    timers,       \* the setTimeout(r, DEBOUNCE) timers, in firing order
    dispatch,     \* the listeners the current event has still to invoke
    bound,        \* the handlers bound to the button, in binding order
    classes,      \* buttonEl.classList
    disabled,     \* buttonEl.disabled
    children,     \* buttonEl.childNodes
    nLoaders,     \* number of loader elements document.createElement made
    lastEv,       \* what the last listener invocation did with its event
    lastOutcome,  \* [Handlers -> how the last started call of fct ended]
    nEvents,      \* number of events delivered so far
    effPhase,     \* addButtonLoadingEffect called directly: "start", "loading", "restored"
    initialBtn,   \* the button as it was before addButtonLoadingEffect
    restoreCb,    \* the loader element captured by the returned callback
    value,        \* UrlField props.value
    websitePath,  \* UrlField props.websitePath
    href          \* what the formattedHref getter returned

vars == <<pdArg, spArg, pending, promises, reactions, microtasks, timers,
          dispatch, bound, classes, disabled, children, nLoaders, lastEv,
          lastOutcome, nEvents, effPhase, initialBtn, restoreCb,
          value, websitePath, href>>

btnVars == <<classes, disabled, children, nLoaders>>
effVars == <<effPhase, initialBtn, restoreCb>>
urlVars == <<value, websitePath, href>>

----------------------------------------------------------------------------
(* Bounds *)

MaxEvents == 3
MaxClicks == 2
MaxChildren == 2
MaxTail == 2

(* Program constant *)

DEBOUNCE == 400

Handlers == {1, 2}
Outcomes == {"promise", "value", "throw"}
ArgKinds == {"absent", "true", "false", "function"}

----------------------------------------------------------------------------
(* minimal_dom.js: makeAsyncHandler *)

_isLockedNever(h) == FALSE
_isLocked(h) == pending[h]

_lock(p, h) == [p EXCEPT ![h] = TRUE]

_unlock(p, h) == [p EXCEPT ![h] = FALSE]

\* `arg === true || arg && arg()`, ret being what arg() returns
ShouldCall(arg, ret) == arg = "true" \/ (arg = "function" /\ ret)

\* whether a .finally callback runs when its promise settles as `how`
FinallyOnlyFulfilled(how) == how = "fulfilled"
FinallyRuns(how) == how \in {"fulfilled", "rejected"}

UnlockJob(h) == [kind |-> "unlock", arg |-> h]
DebouncedJob(res) == [kind |-> "debounced", arg |-> res]
RestoreJob(loaderEl) == [kind |-> "restore", arg |-> loaderEl]

\* Lines 41-50 of the returned function, fct ending as `out`. The result is
\* the new value of each variable it writes, `result` (0: not a promise,
\* i > 0: promises[i]), whether fct was started and whether it threw.
AsyncCall(h, out) ==
    IF _isLocked(h)
    THEN [pending |-> pending, promises |-> promises, reactions |-> reactions,
          microtasks |-> microtasks, lastOutcome |-> lastOutcome,
          result |-> 0, started |-> FALSE, threw |-> FALSE]
    ELSE CASE out = "throw" ->
              \* fct.apply throws: line 49 is never reached
              [pending |-> _lock(pending, h), promises |-> promises,
               reactions |-> reactions, microtasks |-> microtasks,
               lastOutcome |-> [lastOutcome EXCEPT ![h] = "throw"],
               result |-> 0, started |-> TRUE, threw |-> TRUE]
           [] out = "value" ->
              \* Promise.resolve(result) is already fulfilled
              [pending |-> _lock(pending, h), promises |-> promises,
               reactions |-> reactions,
               microtasks |-> Append(microtasks, UnlockJob(h)),
               lastOutcome |-> [lastOutcome EXCEPT ![h] = "value"],
               result |-> 0, started |-> TRUE, threw |-> FALSE]
           [] out = "promise" ->
              [pending |-> _lock(pending, h),
               promises |-> Append(promises, [owner |-> h, st |-> "pending"]),
               reactions |-> Append(reactions, <<UnlockJob(h)>>),
               microtasks |-> microtasks,
               lastOutcome |-> [lastOutcome EXCEPT ![h] = "promise"],
               result |-> Len(promises) + 1, started |-> TRUE, threw |-> FALSE]

----------------------------------------------------------------------------
(* minimal_dom.js: addButtonLoadingEffect *)

Btn == [classes |-> classes, disabled |-> disabled, children |-> children]

LoadingClasses == {"o_website_btn_loading", "disabled"}

Orig(n) == [kind |-> "orig", id |-> n]
Loader(n) == [kind |-> "loader", id |-> n]

\* lines 112-118, loaderEl being the element createElement returned
addButtonLoadingEffect(btn, loaderEl) ==
    [classes |-> btn.classes \cup LoadingClasses,
     disabled |-> TRUE,
     children |-> <<loaderEl>> \o btn.children]

Without(seq, el) == SelectSeq(seq, LAMBDA c : c # el)

HasOtherLoader(btn, loaderEl) ==
    \E k \in 1..Len(btn.children) :
        btn.children[k].kind = "loader" /\ btn.children[k] # loaderEl

restoreKeepsLoader(btn, loaderEl) ==
    [classes |-> btn.classes \ LoadingClasses,
     disabled |-> FALSE,
     children |-> btn.children]

restoreCounted(btn, loaderEl) ==
    IF HasOtherLoader(btn, loaderEl)
    THEN [btn EXCEPT !.children = Without(btn.children, loaderEl)]
    ELSE [classes |-> btn.classes \ LoadingClasses,
          disabled |-> FALSE,
          children |-> Without(btn.children, loaderEl)]

\* lines 119-125: the callback addButtonLoadingEffect returns
restore(btn, loaderEl) ==
    [classes |-> btn.classes \ LoadingClasses,
     disabled |-> FALSE,
     children |-> Without(btn.children, loaderEl)]


----------------------------------------------------------------------------
(* The parts of the state a specification does not use *)

NoEv == [h |-> 0, pdRet |-> FALSE, spRet |-> FALSE,
         prevented |-> FALSE, stopped |-> FALSE, started |-> FALSE]

AsyncIdle ==
    /\ pending = [h \in Handlers |-> FALSE]
    /\ promises = <<>>
    /\ reactions = <<>>
    /\ microtasks = <<>>
    /\ lastOutcome = [h \in Handlers |-> "none"]
    /\ lastEv = NoEv
    /\ nEvents = 0

ButtonIdle ==
    /\ timers = <<>>
    /\ dispatch = <<>>
    /\ nLoaders = 0

EffectIdle ==
    /\ effPhase = "start"
    /\ initialBtn = [classes |-> {}, disabled |-> FALSE, children |-> <<>>]
    /\ restoreCb = 0

NoHref == [type |-> "none", str |-> <<>>]

UrlIdle ==
    /\ value = [type |-> "undefined", str |-> <<>>]
    /\ websitePath = "undefined"
    /\ href = NoHref

----------------------------------------------------------------------------
(* Event loop steps shared by the specifications *)

\* The outside world settles promise i returned by fct; its .finally
\* callbacks become microtasks in registration order.
Settle(i, how) ==
    /\ microtasks = <<>>
    /\ dispatch = <<>>
    /\ promises[i].st = "pending"
    /\ promises' = [promises EXCEPT ![i].st = how]
    /\ microtasks' = IF FinallyRuns(how) THEN reactions[i] ELSE <<>>
    /\ reactions' = [reactions EXCEPT ![i] = <<>>]
    /\ UNCHANGED <<pdArg, spArg, pending, lastOutcome, lastEv, nEvents,
                   timers, dispatch, bound, btnVars, effVars, urlVars>>

SettleSome ==
    \E i \in 1..Len(promises), how \in {"fulfilled", "rejected"} : Settle(i, how)

\* microtask: the _unlock passed to .finally on line 49
RunUnlock ==
    /\ microtasks # <<>>
    /\ Head(microtasks).kind = "unlock"
    /\ pending' = _unlock(pending, Head(microtasks).arg)
    /\ microtasks' = Tail(microtasks)
    /\ UNCHANGED <<pdArg, spArg, promises, reactions, lastOutcome, lastEv,
                   nEvents, timers, dispatch, bound, btnVars, effVars, urlVars>>

----------------------------------------------------------------------------
(* A handler made by makeAsyncHandler(fct, preventDefault, stopPropagation) *)
(* bound to an event source.                                                *)

InitAsync ==
    /\ pdArg \in ArgKinds
    /\ spArg \in ArgKinds
    /\ AsyncIdle /\ ButtonIdle /\ EffectIdle /\ UrlIdle
    /\ bound = <<>>
    /\ classes = {}
    /\ disabled = FALSE
    /\ children = <<>>

RetValues(arg) == IF arg = "function" THEN BOOLEAN ELSE {FALSE}

EventFlagsAfterLock(h, pdRet, spRet) ==
    IF _isLocked(h)
    THEN [prevented |-> FALSE, stopped |-> FALSE]
    ELSE [prevented |-> ShouldCall(pdArg, pdRet),
          stopped |-> ShouldCall(spArg, spRet)]

\* lines 34-39: what the wrapper calls on ev, before it looks at the lock
EventFlags(h, pdRet, spRet) ==
    [prevented |-> ShouldCall(pdArg, pdRet),
     stopped |-> ShouldCall(spArg, spRet)]

\* lines 33-51: one event delivered to the handler
AsyncEvent ==
    /\ microtasks = <<>>
    /\ nEvents < MaxEvents
    /\ nEvents' = nEvents + 1
    /\ \E out \in Outcomes, pdRet \in RetValues(pdArg), spRet \in RetValues(spArg) :
          LET f == EventFlags(1, pdRet, spRet)
              r == AsyncCall(1, out)
          IN
          /\ lastEv' = [h |-> 1, pdRet |-> pdRet, spRet |-> spRet,
                        prevented |-> f.prevented,
                        stopped |-> f.stopped,
                        started |-> r.started]
          /\ pending' = r.pending
          /\ promises' = r.promises
          /\ reactions' = r.reactions
          /\ microtasks' = r.microtasks
          /\ lastOutcome' = r.lastOutcome
    /\ UNCHANGED <<pdArg, spArg, timers, dispatch, bound, btnVars, effVars, urlVars>>

NextAsync == AsyncEvent \/ SettleSome \/ RunUnlock

SpecAsync == InitAsync /\ [][NextAsync]_vars

\* microtasks always run; nothing is assumed about events or settlements
FairSpecAsync == SpecAsync /\ WF_vars(RunUnlock)

----------------------------------------------------------------------------
(* Handlers made by makeButtonHandler(fct) bound to one button *)

InitButton ==
    /\ pdArg = "absent"      \* line 72: makeAsyncHandler(fct)
    /\ spArg = "absent"
    /\ AsyncIdle /\ ButtonIdle /\ EffectIdle /\ UrlIdle
    /\ bound \in {<<1>>, <<1, 2>>}
    /\ classes = {"btn"}
    /\ disabled = FALSE
    /\ children = <<Orig(1)>>

\* lines 74-99: the handler h runs as a listener of the current event, fct
\* ending as `out`; `rest` are the listeners the event has still to invoke
ButtonHandler(h, out, rest) ==
    LET f == EventFlags(h, FALSE, FALSE)
        r == AsyncCall(h, out)
        buttonEl == "btn" \in classes     \* ev.target.closest('.btn')
    IN
    /\ lastEv' = [h |-> h, pdRet |-> FALSE, spRet |-> FALSE,
                  prevented |-> f.prevented, stopped |-> f.stopped,
                  started |-> r.started]
    /\ pending' = r.pending
    /\ promises' = r.promises
    /\ reactions' = r.reactions
    /\ lastOutcome' = r.lastOutcome
    /\ dispatch' = rest
    /\ IF r.threw \/ ~buttonEl
       THEN \* line 75 threw, or line 79 returned
            /\ microtasks' = r.microtasks
            /\ UNCHANGED <<timers, classes>>
       ELSE /\ classes' = classes \cup {"pe-none"}
            /\ IF DEBOUNCE # 0
               THEN /\ timers' = Append(timers, [res |-> r.result, started |-> r.started])
                    /\ microtasks' = r.microtasks
               ELSE /\ timers' = timers
                    /\ microtasks' = Append(r.microtasks, DebouncedJob(r.result))
    /\ UNCHANGED <<pdArg, spArg, bound, disabled, children, nLoaders, effVars, urlVars>>

\* a new event on the button: its first listener runs
Dispatch ==
    /\ microtasks = <<>>
    /\ dispatch = <<>>
    /\ nEvents < MaxClicks
    /\ nEvents' = nEvents + 1
    /\ \E out \in Outcomes : ButtonHandler(Head(bound), out, Tail(bound))

\* the next listener of the same event runs
NextListener ==
    /\ microtasks = <<>>
    /\ dispatch # <<>>
    /\ nEvents' = nEvents
    /\ \E out \in Outcomes : ButtonHandler(Head(dispatch), out, Tail(dispatch))

\* line 89: the oldest DEBOUNCE timer fires and resolves its promise, whose
\* .then callback becomes a microtask
TimerFire ==
    /\ microtasks = <<>>
    /\ dispatch = <<>>
    /\ timers # <<>>
    /\ microtasks' = <<DebouncedJob(Head(timers).res)>>
    /\ timers' = Tail(timers)
    /\ UNCHANGED <<pdArg, spArg, pending, promises, reactions, lastOutcome,
                   lastEv, nEvents, dispatch, bound, btnVars, effVars, urlVars>>

\* microtask: the callback of lines 90-96, `result` being Head(microtasks).arg
RunDebounced ==
    /\ microtasks # <<>>
    /\ Head(microtasks).kind = "debounced"
    /\ LET res == Head(microtasks).arg
           loaderEl == Loader(nLoaders + 1)
           b == addButtonLoadingEffect(
                    [Btn EXCEPT !.classes = @ \ {"pe-none"}], loaderEl)
           settled == IF res = 0 THEN "fulfilled" ELSE promises[res].st
       IN
       /\ classes' = b.classes
       /\ disabled' = b.disabled
       /\ children' = b.children
       /\ nLoaders' = nLoaders + 1
       /\ IF settled = "pending"
          THEN /\ reactions' = [reactions EXCEPT ![res] = Append(@, RestoreJob(nLoaders + 1))]
               /\ microtasks' = Tail(microtasks)
          ELSE /\ reactions' = reactions
               /\ microtasks' = IF FinallyRuns(settled)
                                THEN Append(Tail(microtasks), RestoreJob(nLoaders + 1))
                                ELSE Tail(microtasks)
    /\ UNCHANGED <<pdArg, spArg, pending, promises, lastOutcome, lastEv,
                   nEvents, timers, dispatch, bound, effVars, urlVars>>

\* microtask: the restore callback passed to .finally on line 95
RunRestore ==
    /\ microtasks # <<>>
    /\ Head(microtasks).kind = "restore"
    /\ LET b == restore(Btn, Loader(Head(microtasks).arg)) IN
       /\ classes' = b.classes
       /\ disabled' = b.disabled
       /\ children' = b.children
    /\ microtasks' = Tail(microtasks)
    /\ UNCHANGED <<pdArg, spArg, pending, promises, reactions, lastOutcome,
                   lastEv, nEvents, timers, dispatch, bound, nLoaders,
                   effVars, urlVars>>

NextButton ==
    \/ Dispatch
    \/ NextListener
    \/ TimerFire
    \/ SettleSome
    \/ RunUnlock
    \/ RunDebounced
    \/ RunRestore

SpecButton == InitButton /\ [][NextButton]_vars

\* Listeners, timers and microtasks always run, and every promise fct
\* returned settles; the number of events is finite (MaxClicks).
FairSpecButton ==
    /\ SpecButton
    /\ WF_vars(NextListener)
    /\ WF_vars(TimerFire)
    /\ WF_vars(SettleSome)
    /\ WF_vars(RunUnlock)
    /\ WF_vars(RunDebounced)
    /\ WF_vars(RunRestore)

----------------------------------------------------------------------------
(* Properties of makeAsyncHandler *)

\* the calls of fct made through handler h whose promise has not settled
InFlight(h) ==
    {i \in 1..Len(promises) : promises[i].owner = h /\ promises[i].st = "pending"}

\* C1: at every moment at most one call of fct made through a handler is in
\* flight, a call being in flight until the promise it returned settles.
C1_AtMostOneInFlight ==
    \A h \in Handlers : Cardinality(InFlight(h)) <= 1

\* an event arrived while a call was in flight and did not start fct
C1_Witness ==
    /\ lastEv.h = 1
    /\ ~lastEv.started
    /\ InFlight(1) # {}
    /\ nEvents >= 2

\* the previous call is over: it returned a non-promise value, or the promise
\* it returned has settled, and the lock is still held
PreviousCallOver(h) ==
    /\ pending[h]
    /\ lastOutcome[h] \in {"promise", "value"}
    /\ InFlight(h) = {}

\* C2: once the previous call's promise has settled (fulfilled or rejected),
\* or the previous call returned a non-promise value, the lock is eventually
\* released, and an event delivered while the lock is released starts fct.
C2_LockReleased ==
    /\ [](PreviousCallOver(1) => <>(~pending[1]))
    /\ [][(nEvents' = nEvents + 1 /\ ~pending[1]) => lastEv'.started]_vars

\* fct was started again after the promise of its first call was rejected
C2_Witness ==
    /\ Len(promises) >= 2
    /\ promises[1].st = "rejected"
    /\ promises[2].owner = 1
    /\ ~pending[1]
    /\ lastEv.started

\* C3: a call of fct that throws synchronously does not leave the handler
\* locked once the exception has propagated to the caller.
C3_ThrowLeavesUnlocked ==
    \A h \in Handlers : lastOutcome[h] = "throw" => ~pending[h]

\* C4: the wrapper calls ev.preventDefault() (resp. ev.stopPropagation()) on
\* an event exactly when the argument is true or is a function that returned
\* a truthy value for it, whether or not the event was then ignored.
C4_FlagsFollowArguments ==
    lastEv.h = 1 =>
        /\ lastEv.prevented <=> (pdArg = "true" \/ (pdArg = "function" /\ lastEv.pdRet))
        /\ lastEv.stopped <=> (spArg = "true" \/ (spArg = "function" /\ lastEv.spRet))

\* an ignored event on which the wrapper called preventDefault because the
\* function it was given returned a truthy value
C4_Witness ==
    /\ lastEv.h = 1
    /\ ~lastEv.started
    /\ InFlight(1) # {}
    /\ pdArg = "function"
    /\ lastEv.prevented
    /\ spArg = "false"
    /\ ~lastEv.stopped

----------------------------------------------------------------------------
(* Properties of makeButtonHandler *)

\* the button cannot be clicked: debounce phase or loading state
Protected ==
    \/ "pe-none" \in classes
    \/ (disabled /\ LoadingClasses \subseteq classes)

\* an event started fct and either its DEBOUNCE timer has not fired yet or
\* the promise fct returned has not settled yet
Busy ==
    \/ \E k \in 1..Len(timers) : timers[k].started
    \/ \E i \in 1..Len(promises) : promises[i].st = "pending"

\* C5: with a single handler on the button, from an event that starts fct
\* until the later of the end of the debounce and the settlement of fct's
\* result, the button carries 'pe-none' or is in the loading state.
C5_DisabledWhileBusy ==
    Len(bound) = 1 => (Busy => Protected)

HasLoader == \E k \in 1..Len(children) : children[k].kind = "loader"

Enabled ==
    /\ classes \cap ({"pe-none"} \cup LoadingClasses) = {}
    /\ ~disabled
    /\ ~HasLoader

\* C6: after a finite sequence of events, every promise returned by fct
\* settling, the button is eventually enabled again and stays so: no
\* 'pe-none', 'o_website_btn_loading' or 'disabled' class, disabled = false,
\* no spinner element.
C6_EventuallyEnabled == <>[]Enabled

\* the button is enabled again after it went through the loading state for
\* a call whose promise was rejected, all events delivered
C6_Witness ==
    /\ Enabled
    /\ nEvents = MaxClicks
    /\ timers = <<>>
    /\ microtasks = <<>>
    /\ nLoaders >= 2
    /\ \E i \in 1..Len(promises) : promises[i].st = "rejected"
    /\ \A i \in 1..Len(promises) : promises[i].st # "pending"

\* a step that runs the restore callback of some handler's loading effect
RestoreStep ==
    /\ microtasks # <<>>
    /\ Head(microtasks).kind = "restore"
    /\ microtasks' = Tail(microtasks)

\* C10: with two handlers on the button, whenever the action of either
\* handler finishes after its debounce (its restore callback runs), the
\* button becomes enabled (disabled = false, no 'o_website_btn_loading' or
\* 'disabled' class), whatever the state of the other handler's action.
C10_AnyRestoreEnables ==
    [][(Len(bound) = 2 /\ RestoreStep) =>
            (~disabled' /\ classes' \cap LoadingClasses = {})]_vars

\* one event triggered both handlers, both loading effects were applied,
\* handler 1's action finished and the button is enabled while the action
\* of handler 2 is still pending
C10_Witness ==
    /\ Len(bound) = 2
    /\ nEvents = 1
    /\ microtasks = <<>>
    /\ ~disabled
    /\ classes \cap LoadingClasses = {}
    /\ InFlight(1) = {}
    /\ \E i \in InFlight(2) :
          \E k \in 1..Len(reactions[i]) : reactions[i][k].kind = "restore"

----------------------------------------------------------------------------
(* addButtonLoadingEffect(btnEl) called on a button in any state, then the *)
(* callback it returned                                                    *)

ButtonClasses == {"btn", "fa", "pe-none"} \cup LoadingClasses

OrigChildren(n) == [k \in 1..n |-> Orig(k)]

InitEffect ==
    /\ pdArg = "absent"
    /\ spArg = "absent"
    /\ AsyncIdle /\ ButtonIdle /\ EffectIdle /\ UrlIdle
    /\ bound = <<>>
    /\ classes \in SUBSET ButtonClasses
    /\ disabled \in BOOLEAN
    /\ \E n \in 0..MaxChildren : children = OrigChildren(n)

\* lines 111-119: addButtonLoadingEffect(btnEl)
AddEffect ==
    /\ effPhase = "start"
    /\ initialBtn' = Btn
    /\ LET b == addButtonLoadingEffect(Btn, Loader(nLoaders + 1)) IN
       /\ classes' = b.classes
       /\ disabled' = b.disabled
       /\ children' = b.children
    /\ nLoaders' = nLoaders + 1
    /\ restoreCb' = nLoaders + 1
    /\ effPhase' = "loading"
    /\ UNCHANGED <<pdArg, spArg, pending, promises, reactions, microtasks,
                   lastOutcome, lastEv, nEvents, timers, dispatch, bound, urlVars>>

\* lines 119-125: the caller calls the callback
CallRestore ==
    /\ effPhase = "loading"
    /\ LET b == restore(Btn, Loader(restoreCb)) IN
       /\ classes' = b.classes
       /\ disabled' = b.disabled
       /\ children' = b.children
    /\ effPhase' = "restored"
    /\ UNCHANGED <<pdArg, spArg, pending, promises, reactions, microtasks,
                   lastOutcome, lastEv, nEvents, timers, dispatch, bound,
                   nLoaders, initialBtn, restoreCb, urlVars>>

NextEffect == AddEffect \/ CallRestore

SpecEffect == InitEffect /\ [][NextEffect]_vars

\* C7: after addButtonLoadingEffect and then its callback, the disabled
\* flag, the class set and the child list of the button are what they were
\* before addButtonLoadingEffect was called, whatever they were.
C7_RestoresInitialState ==
    effPhase = "restored" => Btn = initialBtn

----------------------------------------------------------------------------
(* url_field.js: UrlField.formattedHref *)

Lower(c) ==
    CASE c = "H" -> "h"
      [] c = "T" -> "t"
      [] c = "P" -> "p"
      [] c = "S" -> "s"
      [] c = "F" -> "f"
      [] OTHER -> c

CharEqExact(a, b) == a = b

\* the `i` flag of the regex on line 18: characters compare ignoring case
CharEq(a, b) == Lower(a) = Lower(b)

\* the positions where a match of the literal w that starts at position p
\* of s ends: {p + Len(w)} or {}
LitAt(s, p, w) ==
    IF /\ p + Len(w) - 1 <= Len(s)
       /\ \A k \in 1..Len(w) : CharEq(s[p + k - 1], w[k])
    THEN {p + Len(w)}
    ELSE {}

\* (ftp|http)
AltScheme(s, p) ==
    LitAt(s, p, <<"f", "t", "p">>) \cup LitAt(s, p, <<"h", "t", "t", "p">>)

\* s?
OptS(s, P) == P \cup UNION {LitAt(s, q, <<"s">>) : q \in P}

\* ((ftp|http)s?:\/)
SchemeGroup(s, p) ==
    UNION {LitAt(s, q, <<":", "/">>) : q \in OptS(s, AltScheme(s, p))}

\* /^((ftp|http)s?:\/)?\//i.test(s)
regexTest(s) ==
    \E q \in {1} \cup SchemeGroup(s, 1) : LitAt(s, q, <<"/">>) # {}

\* JavaScript truthiness of props.value: false, undefined and "" are falsy
Truthy(v) == v.type = "string" /\ v.str # <<>>

NeedsFormatIgnoringWebsitePath(v, wp) == Truthy(v)

\* line 17: value && !this.props.websitePath
NeedsFormat(v, wp) == Truthy(v) /\ wp # "true"

HttpPrefix == <<"h", "t", "t", "p", ":", "/", "/">>

\* lines 15-22: the getter, for props.value = v and props.websitePath = wp
formattedHref(v, wp) ==
    IF NeedsFormat(v, wp)
    THEN IF ~regexTest(v.str)
         THEN [type |-> "string", str |-> HttpPrefix \o v.str]
         ELSE v
    ELSE v

\* what a value may start with
Heads ==
    { <<>>,
      <<"h", "t", "t", "p", ":", "/", "/">>,
      <<"h", "t", "t", "p", "s", ":", "/", "/">>,
      <<"f", "t", "p", ":", "/", "/">>,
      <<"f", "t", "p", "s", ":", "/", "/">>,
      <<"H", "T", "T", "P", ":", "/", "/">>,
      <<"H", "t", "t", "p", "S", ":", "/", "/">>,
      <<"F", "T", "P", ":", "/", "/">>,
      <<"f", "t", "P", "S", ":", "/", "/">>,
      <<"h", "t", "t", "p", ":">>,
      <<"h", "t", "t", "p", ":", "/">>,
      <<"h", "t", "t", "p", "s">>,
      <<"h", "t", "t", "p", "s", "s", ":", "/", "/">>,
      <<"h", "t", "p", ":", "/", "/">>,
      <<"f", "t", "p", "s", ":", "/">>,
      <<"s", "f", "t", "p", ":", "/", "/">>,
      <<"w", "w", "w", ".">>,
      <<":", "/", "/">>,
      <<"s", ":", "/", "/">> }

TailChars == {"a", "/", ":", "s"}

Tails == UNION {[1..n -> TailChars] : n \in 0..MaxTail}

Values ==
    {[type |-> "boolean", str |-> <<>>], [type |-> "undefined", str |-> <<>>]}
    \cup {[type |-> "string", str |-> h \o t] : h \in Heads, t \in Tails}

InitUrl ==
    /\ pdArg = "absent"
    /\ spArg = "absent"
    /\ AsyncIdle /\ ButtonIdle /\ EffectIdle
    /\ bound = <<>>
    /\ classes = {}
    /\ disabled = FALSE
    /\ children = <<>>
    /\ value \in Values
    /\ websitePath \in {"undefined", "false", "true"}   \* attrs.options.website_path
    /\ href = NoHref

\* the template reads the getter
Render ==
    /\ href = NoHref
    /\ href' = formattedHref(value, websitePath)
    /\ UNCHANGED <<pdArg, spArg, pending, promises, reactions, microtasks,
                   lastOutcome, lastEv, nEvents, timers, dispatch, bound,
                   btnVars, effVars, value, websitePath>>

NextUrl == Render

SpecUrl == InitUrl /\ [][NextUrl]_vars

IsPrefixCI(w, s) ==
    /\ Len(w) <= Len(s)
    /\ \A k \in 1..Len(w) : Lower(s[k]) = w[k]

KnownPrefixes ==
    { <<"h", "t", "t", "p", ":", "/", "/">>,
      <<"h", "t", "t", "p", "s", ":", "/", "/">>,
      <<"f", "t", "p", ":", "/", "/">>,
      <<"f", "t", "p", "s", ":", "/", "/">>,
      <<"/">> }

HasKnownPrefix(s) == \E w \in KnownPrefixes : IsPrefixCI(w, s)

\* C8: for a non-empty string value with websitePath not set, the getter
\* returns the value unchanged when it starts, ignoring case, with
\* 'http://', 'https://', 'ftp://', 'ftps://' or '/', and 'http://' followed
\* by the value otherwise.
C8_PrefixRule ==
    (href # NoHref /\ value.type = "string" /\ value.str # <<>> /\ websitePath # "true") =>
        href = IF HasKnownPrefix(value.str)
               THEN value
               ELSE [type |-> "string", str |-> HttpPrefix \o value.str]

\* an upper-case scheme kept unchanged
C8_Witness ==
    /\ href # NoHref
    /\ websitePath = "undefined"
    /\ value.type = "string"
    /\ Len(value.str) > 8
    /\ value.str[1] = "H"
    /\ href = value

\* C9: the getter returns for every value; with websitePath true, or with an
\* empty or falsy value, it returns the value unchanged; a string that is
\* not a URL with one of the known beginnings is not rejected but returned
\* as 'http://' followed by the string.
C9_Tolerant ==
    href # NoHref =>
        /\ href.type \in {"string", "boolean", "undefined"}
        /\ (websitePath = "true" \/ value.type # "string" \/ value.str = <<>>) =>
               href = value
        /\ (websitePath # "true" /\ value.type = "string" /\ value.str # <<>>
                /\ ~HasKnownPrefix(value.str)) =>
               href = [type |-> "string", str |-> HttpPrefix \o value.str]

\* websitePath is true and a string with no known beginning is returned as is
C9_Witness ==
    /\ href # NoHref
    /\ websitePath = "true"
    /\ value.type = "string"
    /\ value.str # <<>>
    /\ ~HasKnownPrefix(value.str)
    /\ href = value

=============================================================================
